---- MODULE Spec2Model ----
(***************************************************************************)
(* Model of parse_tdx_day_file (src/parse_tdx_day.py): the decoder of a    *)
(* TDX .day file of 32-byte little-endian records into a date-sorted       *)
(* table.                                                                  *)
(*                                                                         *)
(* Representation:                                                         *)
(*  - a file is a sequence of bytes (0..255);                              *)
(*  - an unsigned 32-bit integer is the pair [hi, lo] of its 16-bit        *)
(*    halves (value = hi * 65536 + lo), so that the whole range            *)
(*    0 .. 2^32-1 is covered;                                              *)
(*  - a text string is a sequence of one-character strings;                *)
(*  - the float v / 100.0 is the double nearest to v/100; for v < 2^32 it  *)
(*    prints with two fraction digits as (v div 100).(v mod 100), and it   *)
(*    is represented by that decimal [whole, frac];                        *)
(*  - the 32-bit float `amount` is represented by its bit pattern.         *)
(***************************************************************************)
EXTENDS Integers, Sequences, FiniteSets, TLC

\* Largest number of full records in an input file.
MaxRecords == 3

\* Line 42.
record_size == 32

VARIABLES
    file_path,   \* the argument: a path, as a sequence of characters
    kind,        \* what the path references: "missing", "unreadable", "file"
    file,        \* the bytes of the file
    pos,         \* offset of the open handle f
    handle,      \* "none", "open" or "closed"
    pc,          \* "start", "open", "loop", "after", "done"
    stock_code,
    data_list,
    origin,      \* history: origin[j] is the chunk number data_list[j] / df[j] was decoded from
    nread,       \* history: number of f.read calls that returned
    diag,        \* what was printed, in order
    ret,         \* "pending", "None", "DataFrame", or "raised" (uncaught exception)
    df,          \* the rows of the returned table
    exit         \* source line of the return statement taken (0: none yet)

vars == <<file_path, kind, file, pos, handle, pc, stock_code, data_list,
          origin, nread, diag, ret, df, exit>>

----------------------------------------------------------------------------
(* Unsigned 32-bit integers as [hi, lo].                                   *)

U32(n) == [hi |-> n \div 65536, lo |-> n % 65536]

U32Max == [hi |-> 65535, lo |-> 65535]

Digits == <<"0", "1", "2", "3", "4", "5", "6", "7", "8", "9">>

DigitChar(d) == Digits[d + 1]

DigitVal(c) == CHOOSE d \in 0..9 : Digits[d + 1] = c

IsDigit(c) == \E d \in 0..9 : Digits[d + 1] = c

\* Quotient and remainder of a [hi, lo] value by a small divisor n.
DivMod(v, n) ==
    LET t == (v.hi % n) * 65536 + v.lo
    IN  [q |-> [hi |-> v.hi \div n, lo |-> t \div n], r |-> t % n]

\* str(date_int), line 68 and line 70: the decimal digits, no leading zero.
RECURSIVE str(_)
str(v) ==
    IF v.hi = 0 /\ v.lo < 10
    THEN <<DigitChar(v.lo)>>
    ELSE Append(str(DivMod(v, 10).q), DigitChar(DivMod(v, 10).r))

\* Floor division '//' in place of '/', lines 74-77.
Div100_Floor(v) == [whole |-> DivMod(v, 100).q.hi * 65536 + DivMod(v, 100).q.lo, frac |-> 0]

\* unpacked_data[k] / 100.0, lines 74-77.
Div100(v) ==
    LET d == DivMod(v, 100)
    IN  [whole |-> d.q.hi * 65536 + d.q.lo, frac |-> d.r]

----------------------------------------------------------------------------
(* struct.unpack('<IIIIIfII', buffer), line 61.                            *)

LE16(buffer, i) == buffer[i] + 256 * buffer[i + 1]

\* The 4 bytes at zero-based offset off, least significant byte first.
UnpackLE32(buffer, off) ==
    [hi |-> LE16(buffer, off + 3), lo |-> LE16(buffer, off + 1)]

\* struct.error is raised unless the buffer has exactly 32 bytes.
struct_error(buffer) == Len(buffer) # 32

struct_unpack(buffer) == [k \in 1..8 |-> UnpackLE32(buffer, 4 * (k - 1))]

----------------------------------------------------------------------------
(* datetime.strptime(s, '%Y%m%d'), line 68.  The format compiles to the    *)
(* regular expression                                                      *)
(*   (?P<Y>\d\d\d\d)(?P<m>1[0-2]|0[1-9]|[1-9])                             *)
(*   (?P<d>3[0-1]|[1-2]\d|0[1-9]|[1-9]| [1-9])                             *)
(* which is matched at the start of s, alternatives tried in order; the    *)
(* match must then end at the end of s, and the fields must make a date.   *)

At(s, i) == IF i <= Len(s) THEN s[i] ELSE ""

\* Lengths of the ways %m matches at position 5, in the order tried.
MonthLens(s) ==
    (IF \/ At(s, 5) = "1" /\ At(s, 6) \in {"0", "1", "2"}
        \/ At(s, 5) = "0" /\ IsDigit(At(s, 6)) /\ At(s, 6) # "0"
     THEN <<2>> ELSE <<>>)
    \o (IF IsDigit(At(s, 5)) /\ At(s, 5) # "0" THEN <<1>> ELSE <<>>)

\* Length of the first way %d matches at position p, 0 if none.
DayLen(s, p) ==
    IF \/ At(s, p) = "3" /\ At(s, p + 1) \in {"0", "1"}
       \/ At(s, p) \in {"1", "2"} /\ IsDigit(At(s, p + 1))
       \/ At(s, p) = "0" /\ IsDigit(At(s, p + 1)) /\ At(s, p + 1) # "0"
    THEN 2
    ELSE IF IsDigit(At(s, p)) /\ At(s, p) # "0" THEN 1 ELSE 0

\* The match found: [ok, ml, dl].
RegexMatch(s) ==
    LET yearOk == Len(s) >= 4 /\ \A i \in 1..4 : IsDigit(s[i])
        cand == SelectSeq(MonthLens(s), LAMBDA ml : DayLen(s, 5 + ml) > 0)
    IN  IF yearOk /\ cand # <<>>
        THEN [ok |-> TRUE, ml |-> cand[1], dl |-> DayLen(s, 5 + cand[1])]
        ELSE [ok |-> FALSE, ml |-> 0, dl |-> 0]

RECURSIVE Num(_)
Num(s) == IF s = <<>> THEN 0 ELSE 10 * Num(SubSeq(s, 1, Len(s) - 1)) + DigitVal(s[Len(s)])

IsLeap(y) == (y % 4 = 0 /\ y % 100 # 0) \/ y % 400 = 0

DaysInMonth(y, m) ==
    IF m = 2 THEN (IF IsLeap(y) THEN 29 ELSE 28)
    ELSE IF m \in {4, 6, 9, 11} THEN 30 ELSE 31

\* [ok |-> FALSE] stands for ValueError.
strptime(s) ==
    LET r == RegexMatch(s)
        y == Num(SubSeq(s, 1, 4))
        m == Num(SubSeq(s, 5, 4 + r.ml))
        d == Num(SubSeq(s, 5 + r.ml, 4 + r.ml + r.dl))
    IN  IF /\ r.ok
           /\ 4 + r.ml + r.dl = Len(s)
           /\ y >= 1
           /\ d <= DaysInMonth(y, m)
        THEN [ok |-> TRUE, year |-> y, month |-> m, day |-> d]
        ELSE [ok |-> FALSE, year |-> 0, month |-> 0, day |-> 0]

Pad(n, width) ==
    LET s == str(U32(n))
    IN  [i \in 1..(width - Len(s)) |-> "0"] \o s

\* .strftime('%Y-%m-%d'), line 68.
strftime(t) == Pad(t.year, 4) \o <<"-">> \o Pad(t.month, 2) \o <<"-">> \o Pad(t.day, 2)

----------------------------------------------------------------------------
(* Line 34: os.path.basename(file_path).replace('.day', '').               *)

RECURSIVE LastIndex(_, _)
\* Index of the last occurrence of character c in s, 0 if none.
LastIndex(s, c) ==
    IF s = <<>> THEN 0
    ELSE IF s[Len(s)] = c THEN Len(s)
    ELSE LastIndex(SubSeq(s, 1, Len(s) - 1), c)

\* os.path.basename: what follows the last "/".
basename(p) == SubSeq(p, LastIndex(p, "/") + 1, Len(p))

StartsWithAt(s, i, old) ==
    i + Len(old) - 1 <= Len(s) /\ SubSeq(s, i, i + Len(old) - 1) = old

RECURSIVE ReplaceFrom(_, _, _, _)
ReplaceFrom(s, i, old, new) ==
    IF i > Len(s) THEN <<>>
    ELSE IF StartsWithAt(s, i, old)
         THEN new \o ReplaceFrom(s, i + Len(old), old, new)
         ELSE <<s[i]>> \o ReplaceFrom(s, i + 1, old, new)

\* str.replace(old, new): every non-overlapping occurrence, left to right.
replace(s, old, new) == ReplaceFrom(s, 1, old, new)

DotDay == <<".", "d", "a", "y">>

StockCode(p) == replace(basename(p), DotDay, <<>>)

----------------------------------------------------------------------------
(* Lines 74-91: the dictionary appended for a chunk whose date parsed.     *)

MakeRow(unpacked_data, date_str, code) ==
    [date       |-> date_str,
     stock_code |-> code,
     open       |-> Div100(unpacked_data[2]),
     high       |-> Div100(unpacked_data[3]),
     low        |-> Div100(unpacked_data[4]),
     close      |-> Div100(unpacked_data[5]),
     volume     |-> unpacked_data[7],
     amount     |-> unpacked_data[6]]

----------------------------------------------------------------------------
(* Lines 107-113: pandas.                                                  *)

\* pd.to_datetime of a 'YYYY-MM-DD' string: the timestamp <<year, month, day>>.
to_datetime(date_str) ==
    <<Num(SubSeq(date_str, 1, 4)), Num(SubSeq(date_str, 6, 7)), Num(SubSeq(date_str, 9, 10))>>

DateLE(a, b) ==
    \/ a[1] < b[1]
    \/ a[1] = b[1] /\ a[2] < b[2]
    \/ a[1] = b[1] /\ a[2] = b[2] /\ a[3] <= b[3]

\* The days a nanosecond-resolution Timestamp can hold.  On a date outside
\* them to_datetime raises OutOfBoundsDatetime in the pandas releases that
\* parse strings to nanoseconds, and succeeds in those that do not.
InNsBounds(t) == DateLE(<<1677, 9, 22>>, t) /\ DateLE(t, <<2262, 4, 11>>)

Perms(n) == {p \in [1..n -> 1..n] : \A i, j \in 1..n : p[i] = p[j] => i = j}

\* Line 111 absent: the rows stay in file order.
SortOrders_Unsorted(dates) == {[i \in 1..Len(dates) |-> i]}

\* sort_values(by='date', ascending=True) with the default, unstable
\* quicksort: any arrangement with the dates non-decreasing.
SortOrders(dates) ==
    {p \in Perms(Len(dates)) :
        \A i \in 1..(Len(dates) - 1) : DateLE(dates[p[i]], dates[p[i + 1]])}

Msg(m, a) == [msg |-> m, arg |-> a]

----------------------------------------------------------------------------
(* Input files.                                                            *)

PackLE32(v) == <<v.lo % 256, v.lo \div 256, v.hi % 256, v.hi \div 256>>

\* struct.pack('<IIIIIfII', ...) of eight 32-bit values.
Pack(fields) ==
    PackLE32(fields[1]) \o PackLE32(fields[2]) \o PackLE32(fields[3]) \o PackLE32(fields[4])
    \o PackLE32(fields[5]) \o PackLE32(fields[6]) \o PackLE32(fields[7]) \o PackLE32(fields[8])

\* Bit pattern of the float 123456.0.
F123456 == [hi |-> 18417, lo |-> 8192]

\* date, open, high, low, close, amount, volume, reserved
SampleFields ==
    << <<U32(20240102), U32(350000), U32(355000), U32(348000), U32(352000), F123456, U32(98765), U32(0)>>,
       <<U32(20231229), U32(12345), U32(12399), U32(12301), U32(12350), U32(0), U32(1), U32(7)>>,
       <<U32(20241301), U32(100), U32(200), U32(50), U32(150), F123456, U32(10), U32(0)>>,
       <<U32(2024011), U32(101), U32(202), U32(99), U32(107), F123456, U32(11), U32(1)>>,
       <<U32(30000101), U32(5), U32(6), U32(4), U32(5), U32(0), U32(12), U32(0)>>,
       <<U32(20240102), U32Max, [hi |-> 32768, lo |-> 0], U32(1), U32(2147483647), U32Max, U32Max, U32Max>>,
       <<U32Max, U32(1), U32(1), U32(1), U32(1), U32(0), U32(0), U32(0)>> >>

SampleRecords == {Pack(SampleFields[i]) : i \in 1..Len(SampleFields)}

RECURSIVE Concat(_)
Concat(ss) == IF ss = <<>> THEN <<>> ELSE ss[1] \o Concat(Tail(ss))

\* Lengths of the incomplete chunk at the end of the file.
TailLens == {0, 1, 31}

Files ==
    {Concat(recs) \o SubSeq(Pack(SampleFields[1]), 1, r) :
        recs \in UNION {[1..n -> SampleRecords] : n \in 0..MaxRecords}, r \in TailLens}

Paths ==
    { <<"a", ".", "d", "a", "y">>,
      <<"x", "/", "b", ".", "t", "x", "t">>,
      <<"c", ".", "d", "a", "y", "z", ".", "d", "a", "y">> }

----------------------------------------------------------------------------
(* The state machine: one call of parse_tdx_day_file(file_path).           *)

Init ==
    /\ file_path \in Paths
    /\ kind \in {"missing", "unreadable", "file"}
    /\ file \in (IF kind = "file" THEN Files ELSE {<<>>})
    /\ pos = 0
    /\ handle = "none"
    /\ pc = "start"
    /\ stock_code = <<>>
    /\ data_list = <<>>
    /\ origin = <<>>
    /\ nread = 0
    /\ diag = <<>>
    /\ ret = "pending"
    /\ df = <<>>
    /\ exit = 0

\* Lines 29-31 without the return statement of line 31.
NotFound_NoReturn ==
    /\ pc = "start"
    /\ kind = "missing"
    /\ stock_code' = replace(basename(file_path), <<".", "d", "a", "y">>, <<>>)
    /\ diag' = Append(diag, [msg |-> "NotFound", arg |-> file_path])
    /\ pc' = "open"
    /\ UNCHANGED <<file_path, kind, file, pos, handle, data_list, origin, nread, ret, df, exit>>

\* Lines 29-31: os.path.exists is false.
NotFound ==
    /\ pc = "start"
    /\ kind = "missing"
    /\ diag' = Append(diag, Msg("NotFound", file_path))
    /\ ret' = "None"
    /\ exit' = 31
    /\ pc' = "done"
    /\ UNCHANGED <<file_path, kind, file, pos, handle, stock_code, data_list, origin, nread, df>>

\* Lines 29-37: the path exists.
Begin ==
    /\ pc = "start"
    /\ kind # "missing"
    /\ stock_code' = StockCode(file_path)
    /\ diag' = Append(diag, Msg("Start", StockCode(file_path)))
    /\ data_list' = <<>>
    /\ pc' = "open"
    /\ UNCHANGED <<file_path, kind, file, pos, handle, origin, nread, ret, df, exit>>

\* Line 40: open succeeds.
OpenFile ==
    /\ pc = "open"
    /\ kind = "file"
    /\ handle' = "open"
    /\ pos' = 0
    /\ pc' = "loop"
    /\ UNCHANGED <<file_path, kind, file, stock_code, data_list, origin, nread, diag, ret, df, exit>>

\* Line 40 raises (no such file, a directory, no permission); lines 97-99.
OpenFail ==
    /\ pc = "open"
    /\ kind # "file"
    /\ diag' = Append(diag, Msg("ReadError", <<>>))
    /\ ret' = "None"
    /\ exit' = 99
    /\ pc' = "done"
    /\ UNCHANGED <<file_path, kind, file, pos, handle, stock_code, data_list, origin, nread, df>>

\* f.read(record_size), line 45: up to record_size bytes from the offset.
ReadBuffer == SubSeq(file, pos + 1, IF pos + record_size <= Len(file) THEN pos + record_size ELSE Len(file))

\* Line 47 with the test '=' in place of '<'.
AtEnd_OnlyEmpty(buffer) == Len(buffer) = 0

\* Line 47: the read came back short.
AtEnd(buffer) == Len(buffer) < record_size

\* Lines 45-48: the read that ends the loop; leaving the with block closes f.
ReadEnd ==
    /\ pc = "loop"
    /\ AtEnd(ReadBuffer)
    /\ pos' = pos + Len(ReadBuffer)
    /\ nread' = nread + 1
    /\ handle' = "closed"
    /\ pc' = "after"
    /\ UNCHANGED <<file_path, kind, file, stock_code, data_list, origin, diag, ret, df, exit>>

\* Lines 45-95: one iteration of the loop on a chunk.
ReadChunk ==
    /\ pc = "loop"
    /\ ~ AtEnd(ReadBuffer)
    /\ pos' = pos + Len(ReadBuffer)
    /\ nread' = nread + 1
    /\ IF struct_error(ReadBuffer)
       THEN \* lines 93-95
            /\ diag' = Append(diag, Msg("StructError", <<>>))
            /\ UNCHANGED <<data_list, origin>>
       ELSE LET unpacked_data == struct_unpack(ReadBuffer)
                date_int == unpacked_data[1]
                t == strptime(str(date_int))
            IN  IF ~ t.ok
                THEN \* lines 69-71
                     /\ diag' = Append(diag, Msg("InvalidDate", str(date_int)))
                     /\ UNCHANGED <<data_list, origin>>
                ELSE \* lines 74-91
                     /\ data_list' = Append(data_list, MakeRow(unpacked_data, strftime(t), stock_code))
                     /\ origin' = Append(origin, nread + 1)
                     /\ UNCHANGED diag
    /\ UNCHANGED <<file_path, kind, file, handle, pc, stock_code, ret, df, exit>>

\* The handler of line 97 leaving the function by falling through to line 102.
ReadFail_FallThrough ==
    /\ pc = "loop"
    /\ handle' = "closed"
    /\ diag' = Append(diag, [msg |-> "ReadError", arg |-> <<>>])
    /\ pc' = "after"
    /\ UNCHANGED <<file_path, kind, file, pos, stock_code, data_list, origin, nread, ret, df, exit>>

\* The file opened without the with statement of line 40.
ReadFail_NoClose ==
    /\ pc = "loop"
    /\ diag' = Append(diag, [msg |-> "ReadError", arg |-> <<>>])
    /\ ret' = "None"
    /\ exit' = 99
    /\ pc' = "done"
    /\ UNCHANGED <<file_path, kind, file, pos, handle, stock_code, data_list, origin, nread, df>>

\* f.read raises (I/O error); the with block closes f; lines 97-99.
ReadFail ==
    /\ pc = "loop"
    /\ handle' = "closed"
    /\ diag' = Append(diag, Msg("ReadError", <<>>))
    /\ ret' = "None"
    /\ exit' = 99
    /\ pc' = "done"
    /\ UNCHANGED <<file_path, kind, file, pos, stock_code, data_list, origin, nread, df>>

\* Lines 102-104 absent: an empty table is built and returned.
EmptyResult_EmptyFrame ==
    /\ pc = "after"
    /\ data_list = <<>>
    /\ diag' = Append(diag, [msg |-> "Parsed", arg |-> <<"0">>])
    /\ ret' = "DataFrame"
    /\ exit' = 119
    /\ pc' = "done"
    /\ UNCHANGED <<file_path, kind, file, pos, handle, stock_code, data_list, origin, nread, df>>

\* Lines 102-104.
EmptyResult ==
    /\ pc = "after"
    /\ data_list = <<>>
    /\ diag' = Append(diag, Msg("NoData", <<>>))
    /\ ret' = "None"
    /\ exit' = 104
    /\ pc' = "done"
    /\ UNCHANGED <<file_path, kind, file, pos, handle, stock_code, data_list, origin, nread, df>>

Timestamps == [j \in 1..Len(data_list) |-> to_datetime(data_list[j].date)]

\* Line 109 raises OutOfBoundsDatetime, which nothing catches.
ToDatetimeRaise ==
    /\ pc = "after"
    /\ data_list # <<>>
    /\ \E j \in 1..Len(data_list) : ~ InNsBounds(Timestamps[j])
    /\ ret' = "raised"
    /\ pc' = "done"
    /\ UNCHANGED <<file_path, kind, file, pos, handle, stock_code, data_list, origin, nread, diag, df, exit>>

\* Lines 107-119.
BuildFrame ==
    /\ pc = "after"
    /\ data_list # <<>>
    /\ \E p \in SortOrders(Timestamps) :
          /\ df' = [j \in 1..Len(data_list) |-> [data_list[p[j]] EXCEPT !.date = Timestamps[p[j]]]]
          /\ origin' = [j \in 1..Len(data_list) |-> origin[p[j]]]
    /\ diag' = Append(diag, Msg("Parsed", str(U32(Len(data_list)))))
    /\ ret' = "DataFrame"
    /\ exit' = 119
    /\ pc' = "done"
    /\ UNCHANGED <<file_path, kind, file, pos, handle, stock_code, data_list, nread>>

Next ==
    \/ NotFound
    \/ Begin
    \/ OpenFile
    \/ OpenFail
    \/ ReadEnd
    \/ ReadChunk
    \/ ReadFail
    \/ EmptyResult
    \/ ToDatetimeRaise
    \/ BuildFrame

Spec == Init /\ [][Next]_vars

----------------------------------------------------------------------------
(* The input as the specification describes it.                            *)

\* Number of full 32-byte records of the file.
NumChunks == Len(file) \div 32

Chunk(i) == SubSeq(file, 32 * (i - 1) + 1, 32 * i)

\* The k-th little-endian unsigned 32-bit field of record i.
RawU32(i, k) ==
    LET b == Chunk(i)
        o == 4 * (k - 1)
    IN  [hi |-> b[o + 3] + 256 * b[o + 4], lo |-> b[o + 1] + 256 * b[o + 2]]

\* v is the YYYYMMDD encoding of a calendar date: 4-digit year, month 01-12,
\* day valid for the month.
IsCalendarDate(v) ==
    /\ v.hi <= 1525
    /\ LET n == v.hi * 65536 + v.lo
           y == n \div 10000
           m == (n \div 100) % 100
           d == n % 100
       IN  /\ y \in 1000..9999
           /\ m \in 1..12
           /\ d >= 1
           /\ d <= DaysInMonth(y, m)

ValidChunks == {i \in 1..NumChunks : IsCalendarDate(RawU32(i, 1))}

OriginSet == {origin[j] : j \in 1..Len(origin)}

HasMsg(m) == \E k \in 1..Len(diag) : diag[k].msg = m

CountMsg(m) == Cardinality({k \in 1..Len(diag) : diag[k].msg = m})

\* The rows origin is aligned with: the table once built, else the list.
Kept == IF ret = "DataFrame" THEN df ELSE data_list

\* The base name of the path without its final extension.
BaseNoExt(p) ==
    LET b == basename(p)
        i == LastIndex(b, ".")
    IN  IF i <= 1 THEN b ELSE SubSeq(b, 1, i - 1)

\* The decimal p has two fraction digits and p * 100 is the 32-bit value v.
PriceIs(p, v) ==
    /\ p.frac \in 0..99
    /\ LET c == (p.whole % 65536) * 100 + p.frac
       IN  /\ v.lo = c % 65536
           /\ v.hi = (p.whole \div 65536) * 100 + c \div 65536

----------------------------------------------------------------------------
(* Claims.                                                                 *)

\* C1: the returned table holds exactly one row per record whose date field
\* is a valid date and no other rows; skipped records do not stop the loop
\* and equal dates are all kept.
C1_OneRowPerValidRecord ==
    ret = "DataFrame" =>
        /\ Len(df) = Cardinality(ValidChunks)
        /\ OriginSet = ValidChunks

\* C2: whenever a table is returned, its rows are in non-decreasing order of
\* date, whatever the order of the records in the file.
C2_SortedByDate ==
    ret = "DataFrame" =>
        \A j \in 1..(Len(df) - 1) : DateLE(df[j].date, df[j + 1].date)

\* A table of three rows was returned whose file order was not its date
\* order, two of them with the same date.
C2_Witness ==
    /\ ret = "DataFrame"
    /\ Len(df) = 3
    /\ \E j \in 1..2 : origin[j] > origin[j + 1]
    /\ \E j \in 1..2 : df[j].date = df[j + 1].date

\* C3: every record read whose date field is not the YYYYMMDD encoding of a
\* calendar date is omitted from the output, with a warning.
C3_InvalidDateOmitted ==
    \A i \in 1..NumChunks :
        (i <= nread /\ ~ IsCalendarDate(RawU32(i, 1))) =>
            /\ i \notin OriginSet
            /\ \E k \in 1..Len(diag) :
                  diag[k].msg = "InvalidDate" /\ diag[k].arg = str(RawU32(i, 1))

\* What lines 31 and 99 (NotFound, ReadError) return.
FailureReturns == {"None"}

C5_TrailingBytesIgnored ==
    (pc \in {"after", "done"} /\ kind = "file" /\ Len(file) % 32 # 0 /\ ~ HasMsg("ReadError")) =>
        /\ nread = NumChunks + 1
        /\ pos = Len(file)
        /\ Len(origin) + CountMsg("InvalidDate") = NumChunks
        /\ OriginSet = {i \in 1..NumChunks : strptime(str(RawU32(i, 1))).ok}
        /\ Len(data_list) = Len(origin)
        /\ pc = "after" =>
              \A j \in 1..Len(data_list) :
                  /\ j < Len(data_list) => origin[j] < origin[j + 1]
                  /\ data_list[j] =
                        MakeRow(struct_unpack(Chunk(origin[j])),
                                strftime(strptime(str(RawU32(origin[j], 1)))), stock_code)
        /\ ~ HasMsg("StructError")
        /\ exit \in {0, 104, 119}

\* A table was returned from a file of three records and 31 more bytes.
C5_Witness ==
    /\ ret = "DataFrame"
    /\ Len(file) = 3 * 32 + 31
    /\ Len(df) >= 2

\* C6: an I/O failure while reading aborts the decode with the failure
\* outcome, whatever was accumulated, and no table is returned.
C6_NoPartialTable ==
    HasMsg("ReadError") =>
        /\ pc = "done"
        /\ exit = 99
        /\ ret = "None"
        /\ df = <<>>

\* The read failed after two records had been accumulated.
C6_Witness ==
    /\ exit = 99
    /\ handle = "closed"
    /\ Len(data_list) = 2

\* C7: for a path that does not exist the call returns the NotFound outcome
\* at once: the file is never opened, nothing is read, no table is returned.
C7_NotFoundImmediate ==
    kind = "missing" =>
        /\ pc \in {"start", "done"}
        /\ handle = "none"
        /\ nread = 0
        /\ df = <<>>
        /\ pc = "done" => (exit = 31 /\ ret = "None" /\ diag = <<Msg("NotFound", file_path)>>)

C7_Witness ==
    /\ kind = "missing"
    /\ pc = "done"
    /\ exit = 31

\* C8: every row carries as stock_code the base name of the path without its
\* final extension.
C8_StockCodeIsBaseNoExt ==
    \A j \in 1..Len(Kept) : Kept[j].stock_code = BaseNoExt(file_path)

\* C9: for every kept record, open, high, low and close are the raw fields
\* 2, 3, 4 and 5 divided by 100 with two fraction digits, volume is the raw
\* field 7, and the reserved field 8 is not in the row.
C9_PricesScaled ==
    \A j \in 1..Len(Kept) :
        /\ PriceIs(Kept[j].open, RawU32(origin[j], 2))
        /\ PriceIs(Kept[j].high, RawU32(origin[j], 3))
        /\ PriceIs(Kept[j].low, RawU32(origin[j], 4))
        /\ PriceIs(Kept[j].close, RawU32(origin[j], 5))
        /\ Kept[j].volume = RawU32(origin[j], 7)
        /\ DOMAIN Kept[j] = {"date", "stock_code", "open", "high", "low", "close", "volume", "amount"}

\* A returned row whose open has a non-zero fraction and whose high comes
\* from a raw value of 2^31 or more.
C9_Witness ==
    /\ ret = "DataFrame"
    /\ \E j \in 1..Len(df) : df[j].open.frac # 0 /\ df[j].high.whole >= 21474836

\* C10: on every path that opened the file, the handle is closed before the
\* call returns.
C10_HandleClosed ==
    /\ pc \in {"after", "done"} => handle # "open"
    /\ (pc = "done" /\ nread > 0) => handle = "closed"

\* The call returned after an I/O error in the middle of the loop.
C10_Witness ==
    /\ pc = "done"
    /\ HasMsg("ReadError")
    /\ nread = 2
    /\ Len(data_list) = 1
    /\ handle = "closed"

====
